---- MODULE Spec2Model ----
(***************************************************************************)
(* A model of the slideshow tool of VisualTools: the StateManager          *)
(* singleton, the FFmpegManager singleton (lazy engine load), the          *)
(* FileUploader / SlideshowController event handlers and                   *)
(* SlideshowProcessor.process as an asynchronous state machine whose       *)
(* suspension points are its awaits, plus the pure filter-graph compiler   *)
(* (calculateDuration / buildFilterComplex).                               *)
(*                                                                         *)
(* Numbers of seconds are fixed point: one unit is 1/Scale second.         *)
(*                                                                         *)
(* Environment: every file handed to the uploader passes validateFile      *)
(* (SpecUploader adds the files that do not); previews are removed or      *)
(* dragged only once handleFiles has rendered them;                        *)
(* FFmpegManager.terminate() has no caller and is part of SpecEngine only. *)
(* SpecUi adds the ProgressBar and the spinner as subscribers of the       *)
(* store; SpecSetState and SpecGrid hold StateManager.setState and the     *)
(* image-grid layout on their own.                                         *)
(***************************************************************************)
EXTENDS Integers, Sequences, FiniteSets, TLC

(***************************************************************************)
(* Bounds of the model.                                                    *)
(***************************************************************************)
\* process() calls that may be started in one behaviour
MaxRuns == 2
\* the uploader's maxFiles option, scaled down from CONFIG.MAX_FILES_SLIDESHOW
MaxUploaderFiles == 2
\* files of one drop / file-input selection
MaxBatch == 2
\* handleFiles calls suspended in updatePreview at one time
MaxPending == 1
\* uploader edits (add, remove, reorder, clear) in one behaviour
MaxEdits == 3

(***************************************************************************)
(* Program constants (src/src/config.ts).                                  *)
(***************************************************************************)
Scale == 2 * 1000
VIDEO_FPS == 30
MAX_FILES_SLIDESHOW == 20
\* 1.5 s, 0.5 s, and the input constraints 0.5..10 s and 0.1..3 s
DISPLAY_DURATION == (3 * Scale) \div 2
TRANSITION_DURATION == Scale \div 2
DISPLAY_DURATION_MIN == Scale \div 2
DISPLAY_DURATION_MAX == 10 * Scale
TRANSITION_DURATION_MIN == Scale \div 10
TRANSITION_DURATION_MAX == 3 * Scale

\* JavaScript's NaN and Infinity, as they can reach the progress key
NaN == 0 - 1
Infinity == 100 * 100

Runs == 1..MaxRuns

(***************************************************************************)
(* Files.  A File is one of two images the user can pick (any number of    *)
(* times); its name's extension and its natural size are fixed.            *)
(***************************************************************************)
FileIds == {1, 2}

\* file.name.split('.'): the segments of the two files' names, a.png and b.jpg
NameOf(f) == IF f = 1 THEN <<"a", "png">> ELSE <<"b", "jpg">>

\* String.prototype.toLowerCase on the segments the model uses
ToLowerCase(seg) ==
  CASE seg = "PNG" -> "png"
    [] seg = "JPG" -> "jpg"
    [] OTHER -> seg

\* getExtension: file.name.split('.').pop()?.toLowerCase() ?? 'jpg', for the
\* segments parts of the name; pop() is undefined only for an empty array
GetExtension(parts) ==
  IF Len(parts) = 0 THEN "jpg" ELSE ToLowerCase(parts[Len(parts)])

ExtOf(f) == GetExtension(NameOf(f))
WidthOf(f) == IF f = 1 THEN 100 ELSE 301
HeightOf(f) == IF f = 1 THEN 201 ELSE 100

Batches == UNION {[1..n -> FileIds] : n \in 1..MaxBatch}

VARIABLES
  state,            \* StateManager.state (the keys the pipeline touches)
  ffmpeg,           \* FFmpegManager.ffmpeg # null
  loaded,           \* FFmpegManager.loaded
  sab,              \* typeof SharedArrayBuffer # 'undefined'
  fs,               \* the engine's working storage: name -> run that wrote it
  uploaderFiles,    \* FileUploader.files
  pendingPreview,   \* handleFiles calls awaiting updatePreview
  files,            \* SlideshowController.files
  filesAlias,       \* controller.files is the uploader's current array object
  generateDisabled, \* generateBtn.disabled
  displayInput,     \* parseFloat(displayDurationInput.value)
  transitionInput,  \* parseFloat(transitionDurationInput.value)
  displayDuration,  \* SlideshowProcessor.displayDuration
  transitionDuration, \* SlideshowProcessor.transitionDuration
  run,              \* the process() calls: locals and position of each
  regressed,        \* history: a setState of a running process() lowered progress
  ui,               \* the ProgressBar component and the controller's spinner
  edits,            \* history: the number of uploader edits so far
  cIn,              \* compiler harness: the arguments of buildFilterComplex
  cOut              \* compiler harness: its result

vars == <<state, ffmpeg, loaded, sab, fs, uploaderFiles, pendingPreview, files,
          filesAlias, generateDisabled, displayInput, transitionInput,
          displayDuration, transitionDuration, run, regressed, ui, edits, cIn, cOut>>

pipelineVars == <<state, ffmpeg, loaded, sab, fs, uploaderFiles, pendingPreview,
                  files, filesAlias, generateDisabled, displayInput,
                  transitionInput, run, regressed, ui>>

(***************************************************************************)
(* Sequence helpers (Array.prototype.splice).                              *)
(***************************************************************************)
RemoveAt(s, k) == [j \in 1..(Len(s) - 1) |-> IF j < k THEN s[j] ELSE s[j + 1]]
InsertAt(s, k, e) ==
  [j \in 1..(Len(s) + 1) |-> IF j < k THEN s[j] ELSE IF j = k THEN e ELSE s[j - 1]]
SetMax(S) == CHOOSE m \in S : \A x \in S : x <= m
CeilDiv(a, b) == (a + b - 1) \div b

(***************************************************************************)
(* analyzeImages and the even canvas of process().                         *)
(***************************************************************************)
\* Math.max(...dimensions.map(d => d.width)); Math.max() of nothing is -Infinity
MaxWidthOf(fl) ==
  IF Len(fl) = 0 THEN 0 - Infinity ELSE SetMax({WidthOf(fl[k]) : k \in 1..Len(fl)})
MaxHeightOf(fl) ==
  IF Len(fl) = 0 THEN 0 - Infinity ELSE SetMax({HeightOf(fl[k]) : k \in 1..Len(fl)})
\* a variant that rounds an odd maximum down
EvenUpDown(m) == m - (m % 2)

\* maxWidth + (maxWidth % 2)
EvenUp(m) == m + (m % 2)

(***************************************************************************)
(* StateManager.                                                           *)
(***************************************************************************)
InitialState ==
  [ffmpegLoaded |-> FALSE, ffmpegLoading |-> FALSE, processing |-> FALSE,
   progress |-> 0, error |-> "null"]

\* setState: every key of the update whose value differs is assigned
SetState(st, updates) ==
  [k \in DOMAIN st |-> IF k \in DOMAIN updates THEN updates[k] ELSE st[k]]

\* a variant of the comparison that takes every key of the update as changed
ChangedKeysAll(st, updates) == DOMAIN updates

\* the keys whose subscribers setState notifies: this.state[key] !== value,
\* which is also true of a NaN that replaces a NaN
ChangedKeys(st, updates) ==
  {k \in DOMAIN updates : st[k] # updates[k] \/ (k = "progress" /\ updates[k] = NaN)}

\* reset(): the keys of the update that the model holds
ResetUpdates == [processing |-> FALSE, progress |-> 0, error |-> "null"]

(***************************************************************************)
(* The filter-graph compiler: SlideshowProcessor.calculateDuration and     *)
(* buildFilterComplex.  A statement of the graph is a record; D and T are  *)
(* the processor's displayDuration and transitionDuration in units.        *)
(***************************************************************************)
\* a variant that takes `total` for the last index
CalculateDurationPastEnd(index, total, D, T) ==
  IF index = 0 \/ index = total THEN D + T \div 2 ELSE D + T

\* index and total are 0-based as in the source; T / 2 is exact for even T
CalculateDuration(index, total, D, T) ==
  IF index = 0 \/ index = total - 1 THEN D + T \div 2 ELSE D + T

\* duration * this.fps is a product of IEEE-754 doubles: of the durations that
\* CompileD and CompileT give, the product is inexact only for 8.3 s at 30 fps,
\* where 8.3 * 30 evaluates to 249.00000000000003
ProductRoundsUp(duration, fps) == duration = (83 * Scale) \div 10 /\ fps = 30

\* Math.ceil(duration * fps)
FrameCount(duration, fps) ==
  CeilDiv(duration * fps, Scale) + (IF ProductRoundsUp(duration, fps) THEN 1 ELSE 0)

\* Math.max(0, frameCount - 1)
LoopCount(frameCount) == IF frameCount - 1 > 0 THEN frameCount - 1 ELSE 0

\* Number.prototype.toFixed(2): the decimal text with exactly two decimals,
\* as its integer part and its two-digit fraction
ToFixed2(x) ==
  LET h == (x * 100 + Scale \div 2) \div Scale
  IN  [int |-> h \div 100, frac |-> h % 100]

\* a variant whose running offset starts at 0
OffsetAtFromZero(i, D) == i * D

\* the value of the running offset when crossfade i is emitted:
\* let offset = D; ... offset += D after every crossfade
RECURSIVE OffsetAt(_, _)
OffsetAt(i, D) == IF i = 0 THEN D ELSE OffsetAt(i - 1, D) + D

\* the text of a label: `v${i}`, `vout${i}` or `vfinal`
LabelText(l) == IF Len(l) = 1 THEN l[1] ELSE l[1] \o ToString(l[2])

\* the label process() passes to -map: '[vfinal]'
SinkLabel == <<"vfinal">>

\* the statement pushed by iteration i of the first loop
TransformStmt(i, numImages, width, height, D, T, fps) ==
  LET duration == CalculateDuration(i, numImages, D, T)
      frameCount == FrameCount(duration, fps)
  IN  [kind |-> "transform", input |-> <<i, "v">>, scale |-> <<width, height>>,
       pad |-> <<width, height>>, fps |-> fps, loop |-> LoopCount(frameCount),
       trim |-> duration, out |-> <<"v", i>>]

\* a variant whose crossfades all take the transform stream v{i} first
XfadeStmtUnchained(i, numImages, D, T) ==
  [kind |-> "xfade",
   inputA |-> <<"v", i>>,
   inputB |-> <<"v", i + 1>>,
   duration |-> T,
   offset |-> ToFixed2(OffsetAt(i, D)),
   out |-> IF i = numImages - 2 THEN <<"vfinal">> ELSE <<"vout", i + 1>>]

\* a variant whose crossfades emit the label of the transform they consume
XfadeStmtReusedLabel(i, numImages, D, T) ==
  [kind |-> "xfade",
   inputA |-> IF i = 0 THEN <<"v", i>> ELSE <<"vout", i>>,
   inputB |-> <<"v", i + 1>>,
   duration |-> T,
   offset |-> ToFixed2(OffsetAt(i, D)),
   out |-> IF i = numImages - 2 THEN <<"vfinal">> ELSE <<"v", i + 1>>]

\* the statement pushed by iteration i of the second loop
XfadeStmt(i, numImages, D, T) ==
  [kind |-> "xfade",
   inputA |-> IF i = 0 THEN <<"v", i>> ELSE <<"vout", i>>,
   inputB |-> <<"v", i + 1>>,
   duration |-> T,
   offset |-> ToFixed2(OffsetAt(i, D)),
   out |-> IF i = numImages - 2 THEN <<"vfinal">> ELSE <<"vout", i + 1>>]

\* a variant whose second loop stops one crossfade early
BuildFilterComplexShortChain(numImages, width, height, D, T, fps) ==
  [k \in 1..numImages |-> TransformStmt(k - 1, numImages, width, height, D, T, fps)]
  \o [k \in 1..(numImages - 2) |-> XfadeStmt(k - 1, numImages, D, T)]

\* a variant whose frame rate follows the published progress
BuildFilterComplexStateful(numImages, width, height, D, T, fps) ==
  [k \in 1..numImages |->
     TransformStmt(k - 1, numImages, width, height, D, T, fps + state.progress)]
  \o [k \in 1..(numImages - 1) |-> XfadeStmt(k - 1, numImages, D, T)]

\* filters, in the order pushed; join(';') keeps the order
BuildFilterComplex(numImages, width, height, D, T, fps) ==
  [k \in 1..numImages |-> TransformStmt(k - 1, numImages, width, height, D, T, fps)]
  \o [k \in 1..(numImages - 1) |-> XfadeStmt(k - 1, numImages, D, T)]

(***************************************************************************)
(* Publishing a handler's setState calls.  ups is the sequence of updates  *)
(* the handler makes, in order.                                            *)
(***************************************************************************)
RECURSIVE ApplyAll(_, _)
ApplyAll(st, ups) ==
  IF ups = <<>> THEN st ELSE ApplyAll(SetState(st, Head(ups)), Tail(ups))

\* some update of ups sets progress below the value the state held just before
Lowered(st, ups) ==
  \E k \in 1..Len(ups) :
    /\ "progress" \in DOMAIN ups[k]
    /\ ups[k].progress < ApplyAll(st, SubSeq(ups, 1, k - 1)).progress

ActiveRuns(rn) == {r \in Runs : rn[r].pc \notin {"idle", "done", "failed"}}

(***************************************************************************)
(* The subscribers of the slideshow tool: the ProgressBar component and    *)
(* the controller's spinner. tracked tells whether the specification       *)
(* follows them; a specification that starts from NoUi leaves them out.    *)
(***************************************************************************)
\* bar is ProgressBar.currentProgress, hidden the 'hidden' class of its
\* container, at100 and idle the pending setTimeout callbacks of
\* updateProgress and of the 'processing' subscriber, spinner the visibility
\* of the processing spinner; both is history: a subscriber was notified in a
\* state where ffmpegLoading and ffmpegLoaded were both true
NoUi ==
  [tracked |-> FALSE, bar |-> 0, hidden |-> TRUE, at100 |-> FALSE, idle |-> FALSE,
   spinner |-> FALSE, both |-> FALSE]
\* after the constructors of ProgressBar and SlideshowController
MountedUi == [NoUi EXCEPT !.tracked = TRUE]

\* a < b in JavaScript: false when either side is NaN
Less(a, b) == a # NaN /\ b # NaN /\ a < b
\* Math.min(100, Math.max(0, progress)): NaN stays NaN
Clamp(progress) ==
  IF progress = NaN THEN NaN
  ELSE IF progress < 0 THEN 0
  ELSE IF progress > 100 THEN 100
  ELSE progress

\* ProgressBar.updateProgress(progress)
UpdateProgress(u, progress) ==
  LET clamped == Clamp(progress)
  IN  IF Less(clamped, u.bar)
      THEN u
      ELSE [u EXCEPT !.bar = clamped,
                     !.at100 = @ \/ (clamped # NaN /\ clamped >= 100)]

\* ProgressBar.hide(): hidden, currentProgress = 0, updateProgress(0)
HideBar(u) == UpdateProgress([u EXCEPT !.hidden = TRUE, !.bar = 0], 0)

\* a variant of setState that notifies the subscribers of a key as soon as
\* that key is assigned, before the later keys of the update are
ObservedKeyByKey(st, updates) ==
  {[k \in DOMAIN st |-> IF k \in DOMAIN updates /\ k \in done THEN updates[k] ELSE st[k]] :
     done \in (SUBSET ChangedKeys(st, updates)) \ {{}}}

\* the states in which setState(updates), called at st, notifies subscribers:
\* every key is assigned before the first notify, so only the final state
Observed(st, updates) ==
  IF ChangedKeys(st, updates) = {} THEN {} ELSE {SetState(st, updates)}

\* what the notifications of one setState(updates), called at st, do to the
\* components: the 'progress' subscribers (ProgressBar, then the controller's
\* spinner), the 'processing' and the 'ffmpegLoading' subscriber of ProgressBar
UiNotify(u, st, updates) ==
  LET ch == ChangedKeys(st, updates)
      st1 == SetState(st, updates)
      u1 == IF "progress" \in ch THEN UpdateProgress(u, st1.progress) ELSE u
      u2 == IF "progress" \in ch /\ st1.progress = 100 /\ st1.processing
            THEN [u1 EXCEPT !.spinner = TRUE] ELSE u1
      u3 == IF "processing" \in ch
            THEN IF st1.processing THEN [u2 EXCEPT !.hidden = FALSE]
                                   ELSE [u2 EXCEPT !.idle = TRUE]
            ELSE u2
      u4 == IF "ffmpegLoading" \in ch /\ st1.ffmpegLoading
            THEN [u3 EXCEPT !.hidden = FALSE] ELSE u3
  IN  [u4 EXCEPT !.both = @ \/ \E o \in Observed(st, updates) :
                                    o.ffmpegLoading /\ o.ffmpegLoaded]

RECURSIVE UiFold(_, _, _)
\* the setState calls ups of one handler, in order, starting at st
UiFold(u, st, ups) ==
  IF ups = <<>> THEN u
  ELSE UiFold(UiNotify(u, st, Head(ups)), SetState(st, Head(ups)), Tail(ups))

\* hideProcessingSpinner()
HideSpinner(u) == [u EXCEPT !.spinner = FALSE]

\* the step ends a run that generate() awaited: showResult hides the spinner
ResultShown ==
  \E r \in Runs : run[r].pc # "done" /\ run'[r].pc = "done" /\ run'[r].caller = "generate"

\* byRun: the handler is a resumption of a process() call (its own updates
\* and those of the initialize() it calls), not a user event; the user events
\* of the controller (files changed, generate, clear) hide the spinner
Publish(ups, byRun) ==
  /\ state' = ApplyAll(state, ups)
  /\ regressed' = (regressed \/ (byRun /\ Lowered(state, ups)))
  /\ ui' = IF ~ui.tracked THEN ui
           ELSE IF ~byRun \/ ResultShown THEN HideSpinner(UiFold(ui, state, ups))
           ELSE UiFold(ui, state, ups)

(***************************************************************************)
(* The locals of one process() call.                                       *)
(***************************************************************************)
\* caller, given, reqD and reqT are history: who called process(), with how
\* many files, and the duration inputs of the request; d and t are the
\* durations buildFilterComplex read; input is history: the list process()
\* was given, as it was at the call; file is the loop's `file`; staged is
\* history: the files written, in order; execs is history: the number of
\* execute calls
IdleRun ==
  [pc |-> "idle", files |-> <<>>, alias |-> FALSE, probed |-> <<>>,
   width |-> 0, height |-> 0, ready |-> "undefined", i |-> 0, writing |-> <<>>,
   inputFiles |-> <<>>, graph |-> <<>>, d |-> 0, t |-> 0, argv |-> <<>>,
   list |-> <<>>, j |-> 0,
   err |-> "none", calls |-> {}, started |-> FALSE, joined |-> FALSE,
   caller |-> "none", given |-> 0, reqD |-> 0, reqT |-> 0,
   input |-> <<>>, file |-> 0, staged |-> <<>>, execs |-> 0]

\* `input${i}.${this.getExtension(file)}` and 'slideshow.mp4'
FileName(i, ext) == <<"input", i, ext>>
InputName(i, f) == FileName(i, ExtOf(f))
OutputFile == <<"slideshow", 0, "mp4">>

\* the engine's writeFile / exec: the file of that name now holds r's data
FsWrite(store, name, r) ==
  {e \in store : e.name # name} \cup {[name |-> name, by |-> r]}
\* the engine's deleteFile
FsDelete(store, name) == {e \in store : e.name # name}

\* 20 + Math.floor((i / files.length) * 20); i / 0 is NaN or Infinity
UploadProgress(i, len) ==
  IF len = 0 THEN (IF i = 0 THEN NaN ELSE Infinity) ELSE 20 + (i * 20) \div len

\* the locals a settled call no longer needs are dropped
Ended(rr, pc, err) ==
  [IdleRun EXCEPT !.pc = pc, !.err = err, !.calls = rr.calls,
                  !.started = rr.started, !.joined = rr.joined, !.ready = rr.ready,
                  !.caller = rr.caller, !.given = rr.given,
                  !.reqD = rr.reqD, !.reqT = rr.reqT, !.execs = rr.execs]

\* a variant of the catch block that rethrows the error it caught
CatchFinallyRethrow(rr) ==
  [run |-> Ended(rr, "failed", "engine error"), ups |-> <<[processing |-> FALSE]>>]

\* catch (error) { throw new Error(MESSAGES.ERROR_PROCESSING) }
\* finally { stateManager.setState({ processing: false }) }
CatchFinally(rr) ==
  [run |-> Ended(rr, "failed", "ERROR_PROCESSING"), ups |-> <<[processing |-> FALSE]>>]

\* FFmpegManager.execute / writeFile / readFile: throw unless loaded
EngineUsable == loaded /\ ffmpeg

\* a variant that leaves the last staged input out
ArgvMissingInput(inputFiles, graph) ==
  [k \in 1..(2 * (Len(inputFiles) - 1)) |->
     IF k % 2 = 1 THEN [tag |-> "flag", text |-> "-i"]
     ELSE [tag |-> "file", name |-> inputFiles[k \div 2]]]
  \o <<[tag |-> "flag", text |-> "-filter_complex"], [tag |-> "graph", stmts |-> graph],
       [tag |-> "flag", text |-> "-map"], [tag |-> "label", label |-> SinkLabel],
       [tag |-> "flag", text |-> "-c:v"], [tag |-> "flag", text |-> "libx264"],
       [tag |-> "flag", text |-> "-pix_fmt"], [tag |-> "flag", text |-> "yuv420p"],
       [tag |-> "flag", text |-> "-preset"], [tag |-> "flag", text |-> "fast"],
       [tag |-> "flag", text |-> "-movflags"], [tag |-> "flag", text |-> "+faststart"],
       [tag |-> "flag", text |-> "-y"], [tag |-> "file", name |-> OutputFile]>>

\* the argument list of ffmpegManager.execute: each element is tagged as a
\* literal flag, a file name, the graph text or a bracketed label
Argv(inputFiles, graph) ==
  [k \in 1..(2 * Len(inputFiles)) |->
     IF k % 2 = 1 THEN [tag |-> "flag", text |-> "-i"]
     ELSE [tag |-> "file", name |-> inputFiles[k \div 2]]]
  \o <<[tag |-> "flag", text |-> "-filter_complex"], [tag |-> "graph", stmts |-> graph],
       [tag |-> "flag", text |-> "-map"], [tag |-> "label", label |-> SinkLabel],
       [tag |-> "flag", text |-> "-c:v"], [tag |-> "flag", text |-> "libx264"],
       [tag |-> "flag", text |-> "-pix_fmt"], [tag |-> "flag", text |-> "yuv420p"],
       [tag |-> "flag", text |-> "-preset"], [tag |-> "flag", text |-> "fast"],
       [tag |-> "flag", text |-> "-movflags"], [tag |-> "flag", text |-> "+faststart"],
       [tag |-> "flag", text |-> "-y"], [tag |-> "file", name |-> OutputFile]>>

\* a variant of the staging loop that stops after the first input
StageNextEager(rr) ==
  IF rr.i < Len(rr.files) /\ rr.i < 1
  THEN IF EngineUsable
       THEN [run |-> [rr EXCEPT !.pc = "staging",
                                !.writing = InputName(rr.i, rr.files[rr.i + 1]),
                                !.file = rr.files[rr.i + 1],
                                !.calls = @ \cup {"write"}],
             ups |-> <<>>]
       ELSE CatchFinally(rr)
  ELSE LET g == BuildFilterComplex(Len(rr.inputFiles), rr.width, rr.height,
                                   displayDuration, transitionDuration, VIDEO_FPS)
           r2 == [rr EXCEPT !.graph = g, !.d = displayDuration,
                            !.t = transitionDuration,
                            !.argv = Argv(rr.inputFiles, g)]
       IN  IF EngineUsable
           THEN [run |-> [r2 EXCEPT !.pc = "executing", !.calls = @ \cup {"exec"},
                                    !.execs = @ + 1],
                 ups |-> <<[progress |-> 40]>>]
           ELSE [run |-> CatchFinally(r2).run,
                 ups |-> <<[progress |-> 40]>> \o CatchFinally(r2).ups]

\* the rest of the try block from the head of the staging loop, up to the
\* next await: rr.i is the loop index
StageNext(rr) ==
  IF rr.i < Len(rr.files)
  THEN IF EngineUsable
       THEN [run |-> [rr EXCEPT !.pc = "staging",
                                !.writing = InputName(rr.i, rr.files[rr.i + 1]),
                                !.file = rr.files[rr.i + 1],
                                !.calls = @ \cup {"write"}],
             ups |-> <<>>]
       ELSE CatchFinally(rr)
  ELSE LET g == BuildFilterComplex(Len(rr.inputFiles), rr.width, rr.height,
                                   displayDuration, transitionDuration, VIDEO_FPS)
           r2 == [rr EXCEPT !.graph = g, !.d = displayDuration,
                            !.t = transitionDuration,
                            !.argv = Argv(rr.inputFiles, g)]
       IN  IF EngineUsable
           THEN [run |-> [r2 EXCEPT !.pc = "executing", !.calls = @ \cup {"exec"},
                                    !.execs = @ + 1],
                 ups |-> <<[progress |-> 40]>>]
           ELSE [run |-> CatchFinally(r2).run,
                 ups |-> <<[progress |-> 40]>> \o CatchFinally(r2).ups]

\* FFmpegManager.cleanup from index rr.j of rr.list up to the next await, then
\* the end of the try block; deleteFile returns at once unless loaded
CleanNext(rr) ==
  IF rr.j <= Len(rr.list) /\ EngineUsable
  THEN [run |-> [rr EXCEPT !.pc = "cleaning", !.calls = @ \cup {"delete"}],
        ups |-> <<>>]
  ELSE [run |-> Ended(rr, "done", "none"),
        ups |-> <<[progress |-> 100], [processing |-> FALSE]>>]

\* generate(): finally { this.generateBtn.disabled = this.files.length < 2 },
\* when the process() call that settled was awaited by generate()
GenerateFinally(rn, r) ==
  IF rn[r].pc \in {"done", "failed"} /\ rn[r].caller = "generate"
  THEN generateDisabled' = (Len(files) < 2)
  ELSE UNCHANGED generateDisabled

UNCHANGED_ui ==
  UNCHANGED <<uploaderFiles, pendingPreview, files, filesAlias, displayInput,
              transitionInput, displayDuration, transitionDuration, sab, edits, cIn, cOut>>

(***************************************************************************)
(* FFmpegManager.initialize(), as called by run r at the state st: the     *)
(* part up to its first await.                                             *)
(***************************************************************************)
\* a variant of initialize() without the loaded fast path
AlreadyLoadedIgnored == FALSE

\* if (this.loaded) return true
AlreadyLoaded == loaded

\* a variant that never sees a load in flight
LoadInFlightIgnored(st) == FALSE

\* if (stateManager.getState('ffmpegLoading')): wait for the load in flight
LoadInFlight(st) == st.ffmpegLoading

Initialize(rr, st) ==
  IF AlreadyLoaded
  THEN [run |-> [rr EXCEPT !.pc = "acquired", !.ready = "true"],
        ups |-> <<>>, ffmpeg |-> ffmpeg]
  ELSE IF LoadInFlight(st)
  THEN [run |-> [rr EXCEPT !.pc = "waitEngine", !.joined = TRUE],
        ups |-> <<>>, ffmpeg |-> ffmpeg]
  ELSE IF ~sab
  THEN [run |-> [rr EXCEPT !.pc = "acquired", !.ready = "false"],
        ups |-> <<[error |-> "ERROR_NO_SHAREDARRAYBUFFER"]>>, ffmpeg |-> ffmpeg]
  ELSE [run |-> [rr EXCEPT !.pc = "loading", !.started = TRUE],
        ups |-> <<[ffmpegLoading |-> TRUE, progress |-> 0]>>, ffmpeg |-> TRUE]

\* the subscribers of 'ffmpegLoaded' registered by waiting initialize() calls:
\* setState(updates) at st calls them when the key changes; each unsubscribes
\* and resolves its promise with the new value
NotifyWaiters(rn, st, updates) ==
  IF "ffmpegLoaded" \in ChangedKeys(st, updates)
  THEN [r \in Runs |->
          IF rn[r].pc = "waitEngine"
          THEN [rn[r] EXCEPT !.pc = "acquired",
                             !.ready = IF updates.ffmpegLoaded THEN "true" ELSE "false"]
          ELSE rn[r]]
  ELSE rn

(***************************************************************************)
(* SlideshowProcessor.process, one action per resumption.                  *)
(***************************************************************************)
\* analyzeImages resolved: canvas, progress 10, then initialize()
AnalyzeDone(r) ==
  /\ run[r].pc = "analyzing"
  /\ LET rr == [run[r] EXCEPT !.width = EvenUp(MaxWidthOf(run[r].probed)),
                              !.height = EvenUp(MaxHeightOf(run[r].probed)),
                              !.probed = <<>>]
         st1 == SetState(state, [progress |-> 10])
         ini == Initialize(rr, st1)
     IN  /\ run' = [run EXCEPT ![r] = ini.run]
         /\ ffmpeg' = ini.ffmpeg
         /\ Publish(<<[progress |-> 10]>> \o ini.ups, TRUE)
  /\ UNCHANGED <<loaded, fs, generateDisabled>>
  /\ UNCHANGED_ui

\* analyzeImages rejected ('Failed to load image'): process() rejects
AnalyzeFail(r) ==
  /\ run[r].pc = "analyzing"
  /\ run' = [run EXCEPT ![r] = Ended(run[r], "failed", "Failed to load image")]
  /\ GenerateFinally(run', r)
  /\ UNCHANGED <<state, regressed, ui, ffmpeg, loaded, fs>>
  /\ UNCHANGED_ui

\* await this.ffmpeg.load(...) resolved
LoadDone(r) ==
  /\ run[r].pc = "loading"
  /\ loaded' = TRUE
  /\ LET up == [ffmpegLoaded |-> TRUE, ffmpegLoading |-> FALSE, progress |-> 100]
         rn == NotifyWaiters(run, state, up)
     IN  /\ run' = [rn EXCEPT ![r] = [rn[r] EXCEPT !.pc = "acquired", !.ready = "true"]]
         /\ Publish(<<up>>, TRUE)
  /\ UNCHANGED <<ffmpeg, fs, generateDisabled>>
  /\ UNCHANGED_ui

\* a variant of the catch block of initialize() that leaves ffmpegLoading set
LoadFailStillLoading(r) ==
  /\ run[r].pc = "loading"
  /\ LET up == [error |-> "ERROR_FFMPEG_LOAD"]
         rn == NotifyWaiters(run, state, up)
     IN  /\ run' = [rn EXCEPT ![r] = [rn[r] EXCEPT !.pc = "acquired", !.ready = "false"]]
         /\ Publish(<<up>>, TRUE)
  /\ UNCHANGED <<ffmpeg, loaded, fs, generateDisabled>>
  /\ UNCHANGED_ui

\* await this.ffmpeg.load(...) rejected
LoadFail(r) ==
  /\ run[r].pc = "loading"
  /\ LET up == [ffmpegLoading |-> FALSE, error |-> "ERROR_FFMPEG_LOAD"]
         rn == NotifyWaiters(run, state, up)
     IN  /\ run' = [rn EXCEPT ![r] = [rn[r] EXCEPT !.pc = "acquired", !.ready = "false"]]
         /\ Publish(<<up>>, TRUE)
  /\ UNCHANGED <<ffmpeg, loaded, fs, generateDisabled>>
  /\ UNCHANGED_ui

\* a variant that goes on to staging whatever initialize() returned
ThrowsNever(ready) == FALSE

\* if (!ffmpegReady) throw new Error(MESSAGES.ERROR_FFMPEG_LOAD)
ThrowsUnavailable(ready) == ready # "true"

\* the continuation of `await ffmpegManager.initialize()`
AfterAcquire(r) ==
  /\ run[r].pc = "acquired"
  /\ IF ThrowsUnavailable(run[r].ready)
     THEN /\ run' = [run EXCEPT ![r] = Ended(run[r], "failed", "ERROR_FFMPEG_LOAD")]
          /\ UNCHANGED <<state, regressed, ui>>
     ELSE LET nx == StageNext([run[r] EXCEPT !.i = 0])
          IN  /\ run' = [run EXCEPT ![r] = nx.run]
              /\ Publish(<<[progress |-> 20]>> \o nx.ups, TRUE)
  /\ GenerateFinally(run', r)
  /\ UNCHANGED <<ffmpeg, loaded, fs>>
  /\ UNCHANGED_ui

\* await ffmpegManager.writeFile(filename, file) resolved
WriteDone(r) ==
  /\ run[r].pc = "staging"
  /\ fs' = FsWrite(fs, run[r].writing, r)
  /\ LET rr == [run[r] EXCEPT !.inputFiles = Append(@, run[r].writing),
                              !.staged = Append(@, run[r].file),
                              !.writing = <<>>, !.file = 0, !.i = @ + 1]
         up == [progress |-> UploadProgress(run[r].i, Len(run[r].files))]
         nx == StageNext(rr)
     IN  /\ run' = [run EXCEPT ![r] = nx.run]
         /\ Publish(<<up>> \o nx.ups, TRUE)
  /\ GenerateFinally(run', r)
  /\ UNCHANGED <<ffmpeg, loaded>>
  /\ UNCHANGED_ui

\* a rejected await inside the try block: writeFile, execute or readFile
FailInTry(r, at) ==
  /\ run[r].pc = at
  /\ LET cf == CatchFinally(run[r])
     IN  /\ run' = [run EXCEPT ![r] = cf.run]
         /\ Publish(cf.ups, TRUE)
  /\ GenerateFinally(run', r)
  /\ UNCHANGED <<ffmpeg, loaded, fs>>
  /\ UNCHANGED_ui

WriteFail(r) == FailInTry(r, "staging")
ExecFail(r) == FailInTry(r, "executing")
ReadFail(r) == FailInTry(r, "reading")

\* the engine's 'progress' event while exec runs:
\* setState({ progress: Math.round(progress * 100) })
EngineProgressValues == {0, 100}

ExecProgress(r, p) ==
  /\ run[r].pc = "executing"
  /\ UNCHANGED <<run, ffmpeg, loaded, fs, generateDisabled>>
  /\ Publish(<<[progress |-> p]>>, TRUE)
  /\ UNCHANGED_ui

\* await ffmpegManager.execute([...]) resolved: progress 90, then readFile
ExecDone(r) ==
  /\ run[r].pc = "executing"
  /\ fs' = FsWrite(fs, OutputFile, r)
  /\ LET nx == IF EngineUsable
               THEN [run |-> [run[r] EXCEPT !.pc = "reading",
                                            !.calls = @ \cup {"read"}],
                     ups |-> <<>>]
               ELSE CatchFinally(run[r])
     IN  /\ run' = [run EXCEPT ![r] = nx.run]
         /\ Publish(<<[progress |-> 90]>> \o nx.ups, TRUE)
  /\ GenerateFinally(run', r)
  /\ UNCHANGED <<ffmpeg, loaded>>
  /\ UNCHANGED_ui

\* await ffmpegManager.readFile(outputFile) resolved: cleanup([...inputFiles, outputFile])
ReadDone(r) ==
  /\ run[r].pc = "reading"
  /\ LET nx == CleanNext([run[r] EXCEPT !.list = Append(run[r].inputFiles, OutputFile),
                                        !.j = 1])
     IN  /\ run' = [run EXCEPT ![r] = nx.run]
         /\ Publish(nx.ups, TRUE)
  /\ GenerateFinally(run', r)
  /\ UNCHANGED <<ffmpeg, loaded, fs>>
  /\ UNCHANGED_ui

\* a variant of deleteFile that lets a rejected deletion reach the catch block
DeleteDoneAborting(r, ok) ==
  /\ run[r].pc = "cleaning"
  /\ fs' = IF ok THEN FsDelete(fs, run[r].list[run[r].j]) ELSE fs
  /\ LET nx == IF ok THEN CleanNext([run[r] EXCEPT !.j = @ + 1])
                     ELSE CatchFinally(run[r])
     IN  /\ run' = [run EXCEPT ![r] = nx.run]
         /\ Publish(nx.ups, TRUE)
  /\ GenerateFinally(run', r)
  /\ UNCHANGED <<ffmpeg, loaded>>
  /\ UNCHANGED_ui

\* await this.ffmpeg.deleteFile(filename) settled; a rejection is swallowed
DeleteDone(r, ok) ==
  /\ run[r].pc = "cleaning"
  /\ fs' = IF ok THEN FsDelete(fs, run[r].list[run[r].j]) ELSE fs
  /\ LET nx == CleanNext([run[r] EXCEPT !.j = @ + 1])
     IN  /\ run' = [run EXCEPT ![r] = nx.run]
         /\ Publish(nx.ups, TRUE)
  /\ GenerateFinally(run', r)
  /\ UNCHANGED <<ffmpeg, loaded>>
  /\ UNCHANGED_ui

(***************************************************************************)
(* FileUploader and SlideshowController event handlers.                    *)
(***************************************************************************)
\* an in-place splice of the uploader's array is seen through every alias
Spliced(rn, new) ==
  [r \in Runs |-> IF rn[r].alias THEN [rn[r] EXCEPT !.files = new] ELSE rn[r]]
\* the uploader got a new array object: the old one is no longer its alias
Unaliased(rn) == [r \in Runs |-> [rn[r] EXCEPT !.alias = FALSE]]

\* eventBus 'slideshow-files-changed' listener and onFilesChanged(), for the
\* emitted array fl: hideError() publishes error null
OnFilesChanged(fl) ==
  /\ files' = fl
  /\ filesAlias' = TRUE
  /\ generateDisabled' = (Len(fl) < 2)

\* handleFiles up to `await this.updatePreview()`: all files valid, total within maxFiles
HandleFiles(batch) ==
  /\ edits < MaxEdits
  /\ edits' = edits + 1
  /\ pendingPreview < MaxPending
  /\ Len(uploaderFiles) + Len(batch) <= MaxUploaderFiles
  /\ uploaderFiles' = uploaderFiles \o batch
  /\ pendingPreview' = pendingPreview + 1
  /\ filesAlias' = FALSE
  /\ run' = Unaliased(run)
  /\ UNCHANGED <<state, regressed, ui, ffmpeg, loaded, sab, fs, files, generateDisabled,
                 displayInput, transitionInput, displayDuration, transitionDuration,
                 cIn, cOut>>

\* handleFiles after updatePreview: emitChange()
PreviewDone ==
  /\ UNCHANGED edits
  /\ pendingPreview > 0
  /\ pendingPreview' = pendingPreview - 1
  /\ OnFilesChanged(uploaderFiles)
  /\ run' = run
  /\ Publish(<<[error |-> "null"]>>, FALSE)
  /\ UNCHANGED <<ffmpeg, loaded, sab, fs, uploaderFiles, displayInput,
                 transitionInput, displayDuration, transitionDuration, cIn, cOut>>

\* removeFile(index): splice, emitChange (index is 1-based here); the remove
\* buttons exist once the previews are rendered
RemoveFile(index) ==
  /\ pendingPreview = 0
  /\ edits < MaxEdits
  /\ edits' = edits + 1
  /\ index \in 1..Len(uploaderFiles)
  /\ LET new == RemoveAt(uploaderFiles, index)
     IN  /\ uploaderFiles' = new
         /\ run' = Spliced(run, new)
         /\ OnFilesChanged(new)
  /\ Publish(<<[error |-> "null"]>>, FALSE)
  /\ UNCHANGED <<ffmpeg, loaded, sab, fs, pendingPreview, displayInput,
                 transitionInput, displayDuration, transitionDuration, cIn, cOut>>

\* handleDrop: move the file at fromIndex to toIndex, emitChange; the
\* draggable items exist once the previews are rendered
HandleDrop(fromIndex, toIndex) ==
  /\ pendingPreview = 0
  /\ edits < MaxEdits
  /\ edits' = edits + 1
  /\ fromIndex \in 1..Len(uploaderFiles)
  /\ toIndex \in 1..Len(uploaderFiles)
  /\ fromIndex # toIndex
  /\ LET new == InsertAt(RemoveAt(uploaderFiles, fromIndex), toIndex,
                         uploaderFiles[fromIndex])
     IN  /\ uploaderFiles' = new
         /\ run' = Spliced(run, new)
         /\ OnFilesChanged(new)
  /\ Publish(<<[error |-> "null"]>>, FALSE)
  /\ UNCHANGED <<ffmpeg, loaded, sab, fs, pendingPreview, displayInput,
                 transitionInput, displayDuration, transitionDuration, cIn, cOut>>

\* clear(): the Clear button is shown while the controller holds files
ClickClear ==
  /\ edits < MaxEdits
  /\ edits' = edits + 1
  /\ Len(files) > 0
  /\ uploaderFiles' = <<>>
  /\ run' = Unaliased(run)
  /\ OnFilesChanged(<<>>)
  /\ displayInput' = DISPLAY_DURATION
  /\ transitionInput' = TRANSITION_DURATION
  /\ Publish(<<[error |-> "null"], [error |-> "null"], ResetUpdates>>,
             FALSE)
  /\ UNCHANGED <<ffmpeg, loaded, sab, fs, pendingPreview, displayDuration,
                 transitionDuration, cIn, cOut>>

\* validateSlideshowFiles(this.files).valid (every held file passed validateFile)
ValidFiles(fl) == Len(fl) >= 2 /\ Len(fl) <= MAX_FILES_SLIDESHOW

\* parseFloat(input.value) || CONFIG default: NaN and 0 are falsy
OrDefault(v, default) == IF v = NaN \/ v = 0 THEN default ELSE v

\* the two range checks of generate()
ValidDurations(d, t) ==
  /\ ~(d < DISPLAY_DURATION_MIN \/ d > DISPLAY_DURATION_MAX)
  /\ ~(t < TRANSITION_DURATION_MIN \/ t > TRANSITION_DURATION_MAX)

\* the slot of the next process() call
FreeRun == CHOOSE r \in Runs : run[r].pc = "idle" /\ \A q \in Runs : q < r => run[q].pc # "idle"

\* a variant of the length check that lets every list through
TooFewIgnored(fl) == FALSE

\* if (files.length < 2) throw new Error('At least 2 images required')
TooFew(fl) == Len(fl) < 2

\* process(fl) up to `await analyzeImages(files)`; al: fl is the uploader's
\* array object; analyzeImages starts a probe of every file of the list at once
ProcessStart(fl, al, caller, reqD, reqT) ==
  LET rr == [IdleRun EXCEPT !.caller = caller, !.given = Len(fl),
                            !.reqD = reqD, !.reqT = reqT]
  IN  IF TooFew(fl)
      THEN [run |-> Ended(rr, "failed", "At least 2 images required"), ups |-> <<>>]
      ELSE [run |-> [rr EXCEPT !.pc = "analyzing", !.files = fl, !.alias = al,
                               !.probed = fl, !.input = fl],
            ups |-> <<[processing |-> TRUE, progress |-> 5]>>]

\* the guard generate() applies before it starts a run (the disabled button
\* delivers no click)
GenerateEnabled == ~generateDisabled

\* click on Generate: generate() and process() up to `await analyzeImages(files)`
ClickGenerate ==
  /\ UNCHANGED edits
  /\ GenerateEnabled
  /\ \E r \in Runs : run[r].pc = "idle"
  /\ LET d == OrDefault(displayInput, DISPLAY_DURATION)
         t == OrDefault(transitionInput, TRANSITION_DURATION)
         ps == ProcessStart(files, filesAlias, "generate", displayInput, transitionInput)
     IN  IF ValidFiles(files) /\ ValidDurations(d, t)
         THEN /\ generateDisabled' = IF ps.run.pc = "failed" THEN Len(files) < 2 ELSE TRUE
              /\ displayDuration' = d
              /\ transitionDuration' = t
              /\ run' = [run EXCEPT ![FreeRun] = ps.run]
              /\ Publish(<<[error |-> "null"]>> \o ps.ups, FALSE)
         ELSE /\ Publish(<<[error |-> "null"]>>, FALSE)
              /\ UNCHANGED <<generateDisabled, displayDuration, transitionDuration, run>>
  /\ UNCHANGED <<ffmpeg, loaded, sab, fs, uploaderFiles, pendingPreview, files,
                 filesAlias, displayInput, transitionInput, cIn, cOut>>

\* the user edits the display-duration input: its value parses to v
SetDisplayInput(v) ==
  /\ edits < MaxEdits
  /\ edits' = edits + 1
  /\ v # displayInput
  /\ displayInput' = v
  /\ UNCHANGED <<state, regressed, ui, ffmpeg, loaded, sab, fs, uploaderFiles,
                 pendingPreview, files, filesAlias, generateDisabled, transitionInput,
                 displayDuration, transitionDuration, run, cIn, cOut>>

\* the user edits the transition-duration input: its value parses to v
SetTransitionInput(v) ==
  /\ edits < MaxEdits
  /\ edits' = edits + 1
  /\ v # transitionInput
  /\ transitionInput' = v
  /\ UNCHANGED <<state, regressed, ui, ffmpeg, loaded, sab, fs, uploaderFiles,
                 pendingPreview, files, filesAlias, generateDisabled, displayInput,
                 displayDuration, transitionDuration, run, cIn, cOut>>

\* SlideshowProcessor.process(fl) called on a list of the caller's own, up to
\* `await analyzeImages(files)`
CallProcess(fl) ==
  /\ \E r \in Runs : run[r].pc = "idle"
  /\ LET ps == ProcessStart(fl, FALSE, "direct", displayDuration, transitionDuration)
     IN  /\ run' = [run EXCEPT ![FreeRun] = ps.run]
         /\ Publish(ps.ups, FALSE)
  /\ UNCHANGED <<ffmpeg, loaded, fs, generateDisabled>>
  /\ UNCHANGED_ui

(***************************************************************************)
(* The specification of the pipeline.                                      *)
(***************************************************************************)
Init ==
  /\ state = InitialState
  /\ ffmpeg = FALSE
  /\ loaded = FALSE
  /\ sab \in BOOLEAN
  /\ fs = {}
  /\ uploaderFiles = <<>>
  /\ pendingPreview = 0
  /\ files = <<>>
  /\ filesAlias = FALSE
  /\ generateDisabled = TRUE
  /\ displayInput = DISPLAY_DURATION
  /\ transitionInput = TRANSITION_DURATION
  /\ displayDuration = DISPLAY_DURATION
  /\ transitionDuration = TRANSITION_DURATION
  /\ run = [r \in Runs |-> IdleRun]
  /\ regressed = FALSE
  /\ ui = NoUi
  /\ edits = 0
  /\ cIn = <<>>
  /\ cOut = <<>>

Next ==
  \/ \E b \in Batches : HandleFiles(b)
  \/ PreviewDone
  \/ \E k \in 1..MaxUploaderFiles : RemoveFile(k)
  \/ \E a, b \in 1..MaxUploaderFiles : HandleDrop(a, b)
  \/ ClickClear
  \/ ClickGenerate
  \/ \E r \in Runs :
       \/ AnalyzeDone(r)
       \/ AnalyzeFail(r)
       \/ LoadDone(r)
       \/ LoadFail(r)
       \/ AfterAcquire(r)
       \/ WriteDone(r)
       \/ WriteFail(r)
       \/ \E p \in EngineProgressValues : ExecProgress(r, p)
       \/ ExecDone(r)
       \/ ExecFail(r)
       \/ ReadDone(r)
       \/ ReadFail(r)
       \/ \E ok \in BOOLEAN : DeleteDone(r, ok)

Spec == Init /\ [][Next]_vars

(***************************************************************************)
(* The specification of the compiler alone: buildFilterComplex applied to  *)
(* every input count up to the configured maximum, for display and         *)
(* transition durations inside the ranges generate() accepts.              *)
(***************************************************************************)
\* 0.5 s, 0.502 s, 1.5 s, 2.33 s, 8 s, 10 s and 0.1 s, 0.101 s, 0.3 s, 0.5 s,
\* 3 s: values on which the arithmetic here and the source's double
\* arithmetic give the same durations, frame counts and toFixed(2) texts
CompileD == {DISPLAY_DURATION_MIN, 1004, DISPLAY_DURATION, 4660, 8 * Scale,
             DISPLAY_DURATION_MAX}
CompileT == {TRANSITION_DURATION_MIN, 202, 600, TRANSITION_DURATION,
             TRANSITION_DURATION_MAX}
CompileCanvas == {<<300, 200>>, <<2, 2>>}

InitCompile ==
  /\ state = InitialState
  /\ ffmpeg = FALSE
  /\ loaded = FALSE
  /\ sab = TRUE
  /\ fs = {}
  /\ uploaderFiles = <<>>
  /\ pendingPreview = 0
  /\ files = <<>>
  /\ filesAlias = FALSE
  /\ generateDisabled = TRUE
  /\ displayInput = DISPLAY_DURATION
  /\ transitionInput = TRANSITION_DURATION
  /\ displayDuration \in CompileD
  /\ transitionDuration \in CompileT
  /\ run = [r \in Runs |-> IdleRun]
  /\ regressed = FALSE
  /\ ui = NoUi
  /\ edits = 0
  /\ cIn \in {[numImages |-> n, width |-> c[1], height |-> c[2]] :
                n \in 2..MAX_FILES_SLIDESHOW, c \in CompileCanvas}
  /\ cOut = <<>>

\* this.buildFilterComplex(inputFiles.length, width, height)
Compile ==
  /\ cOut = <<>>
  /\ cOut' = BuildFilterComplex(cIn.numImages, cIn.width, cIn.height,
                                displayDuration, transitionDuration, VIDEO_FPS)
  /\ UNCHANGED <<pipelineVars, edits, displayDuration, transitionDuration, cIn>>

NextCompile == Compile

SpecCompile == InitCompile /\ [][NextCompile]_vars

(***************************************************************************)
(* The specification of the settings form: the pipeline with a user who    *)
(* adds files, edits the two duration inputs and clicks Generate.          *)
(***************************************************************************)
\* what the display-duration input can parse to: NaN (empty), 0, 1.5 s, 11 s
FormDisplayValues == {NaN, 0, DISPLAY_DURATION, 11 * Scale}
\* what the transition-duration input can parse to: 0, 0.3 s, 0.5 s, 5 s
FormTransitionValues == {0, 600, TRANSITION_DURATION, 5 * Scale}

NextForm ==
  \/ \E b \in Batches : HandleFiles(b)
  \/ PreviewDone
  \/ \E v \in FormDisplayValues : SetDisplayInput(v)
  \/ \E v \in FormTransitionValues : SetTransitionInput(v)
  \/ ClickGenerate
  \/ \E r \in Runs :
       \/ AnalyzeDone(r)
       \/ AnalyzeFail(r)
       \/ LoadDone(r)
       \/ LoadFail(r)
       \/ AfterAcquire(r)
       \/ WriteDone(r)
       \/ WriteFail(r)
       \/ ExecDone(r)
       \/ ExecFail(r)
       \/ ReadDone(r)
       \/ ReadFail(r)
       \/ \E ok \in BOOLEAN : DeleteDone(r, ok)

SpecForm == Init /\ [][NextForm]_vars

(***************************************************************************)
(* The specification of the processor's public method: process() called    *)
(* directly, on lists of any length, by a caller other than generate().    *)
(***************************************************************************)
\* the form together with reordering, which lets a second request start
\* while a run is in flight
NextFormDrop ==
  \/ NextForm
  \/ \E a, b \in 1..MaxUploaderFiles : HandleDrop(a, b)

SpecFormDrop == Init /\ [][NextFormDrop]_vars

\* the settling of whatever run r awaits: an image probe, the engine load, or
\* an engine primitive (write, run, read, delete), and the continuation of
\* the awaited initialize()
Settle(r) ==
  \/ AnalyzeDone(r)
  \/ AnalyzeFail(r)
  \/ LoadDone(r)
  \/ LoadFail(r)
  \/ AfterAcquire(r)
  \/ WriteDone(r)
  \/ WriteFail(r)
  \/ ExecDone(r)
  \/ ExecFail(r)
  \/ ReadDone(r)
  \/ ReadFail(r)
  \/ \E ok \in BOOLEAN : DeleteDone(r, ok)

\* the callback of the setTimeout(500) that updateProgress set at 100%:
\* if (stateManager.getState('processing')) this.hide()
BarTimerAt100 ==
  /\ ui.tracked
  /\ ui.at100
  /\ ui' = IF state.processing
           THEN HideBar([ui EXCEPT !.at100 = FALSE])
           ELSE [ui EXCEPT !.at100 = FALSE]
  /\ UNCHANGED <<state, ffmpeg, loaded, sab, fs, uploaderFiles, pendingPreview, files,
                 filesAlias, generateDisabled, displayInput, transitionInput,
                 displayDuration, transitionDuration, run, regressed, edits, cIn, cOut>>

\* the callback of the setTimeout(500) that the 'processing' subscriber set:
\* if (!stateManager.getState('processing')) this.hide()
BarTimerIdle ==
  /\ ui.tracked
  /\ ui.idle
  /\ ui' = IF ~state.processing
           THEN HideBar([ui EXCEPT !.idle = FALSE])
           ELSE [ui EXCEPT !.idle = FALSE]
  /\ UNCHANGED <<state, ffmpeg, loaded, sab, fs, uploaderFiles, pendingPreview, files,
                 filesAlias, generateDisabled, displayInput, transitionInput,
                 displayDuration, transitionDuration, run, regressed, edits, cIn, cOut>>

(***************************************************************************)
(* The FileUploader under every batch: files that fail validateFile and    *)
(* batches that go over maxFiles included.                                 *)
(***************************************************************************)
\* a file validateFile rejects (extension, MIME type or size)
InvalidFile == 0
UploaderBatches == UNION {[1..n -> FileIds \cup {InvalidFile}] : n \in 1..MaxBatch}

\* validateFile(file).valid for every file of the batch
AllValid(batch) == \A k \in 1..Len(batch) : batch[k] \in FileIds

\* a variant of the two checks that leaves the total unchecked
AcceptsValid(held, batch) == AllValid(batch)

\* the two checks of handleFiles: every file valid, then
\* this.files.length + newFiles.length <= this.options.maxFiles
Accepts(held, batch) ==
  AllValid(batch) /\ ~(Len(held) + Len(batch) > MaxUploaderFiles)

\* handleFiles(fileList) up to `await this.updatePreview()`, or to its early
\* return; cOut keeps the batch of the latest call
HandleFilesCall(batch) ==
  /\ edits < MaxEdits
  /\ edits' = edits + 1
  /\ pendingPreview < MaxPending
  /\ cOut' = <<[batch |-> batch, n |-> edits + 1]>>
  /\ IF Accepts(uploaderFiles, batch)
     THEN /\ uploaderFiles' = uploaderFiles \o batch
          /\ pendingPreview' = pendingPreview + 1
          /\ filesAlias' = FALSE
          /\ run' = Unaliased(run)
     ELSE UNCHANGED <<uploaderFiles, pendingPreview, filesAlias, run>>
  /\ UNCHANGED <<state, regressed, ui, ffmpeg, loaded, sab, fs, files, generateDisabled,
                 displayInput, transitionInput, displayDuration, transitionDuration,
                 cIn>>

NextUploader ==
  \/ \E batch \in UploaderBatches : HandleFilesCall(batch)
  \/ PreviewDone
  \/ \E index \in 1..MaxUploaderFiles : RemoveFile(index)
  \/ \E a, b \in 1..MaxUploaderFiles : HandleDrop(a, b)
  \/ ClickClear

SpecUploader == Init /\ [][NextUploader]_vars

(***************************************************************************)
(* ImageGridProcessor.process: the grid layout, for every image count the  *)
(* grid's uploader admits and a range of output sizes.                     *)
(***************************************************************************)
\* the grid uploader's maxFiles
GRID_MAX_FILES == 20
\* the smallest output width and height the grid controller lets through
GRID_MIN_SIZE == 100
GridSizes == {GRID_MIN_SIZE, GRID_MIN_SIZE + 1, 333, 1080, 1920}

\* Math.ceil(Math.sqrt(imageCount))
CeilSqrt(n) == CHOOSE c \in 0..n : c * c >= n /\ \A b \in 0..(c - 1) : b * b < n
\* a variant of the cell size that rounds up
CellSizeCeil(total, parts) == CeilDiv(total, parts)
\* Math.floor(options.width / cols)
CellSize(total, parts) == total \div parts

\* the two nested loops over row and col, in order: the cells whose index
\* row * cols + col is below imageCount, as `${x}_${y}`
LayoutParts(imageCount, rows, cols, cellWidth, cellHeight) ==
  LET cell(k) == [row |-> (k - 1) \div cols, col |-> (k - 1) % cols]
      part(k) == <<cell(k).col * cellWidth, cell(k).row * cellHeight>>
      all == [k \in 1..(rows * cols) |-> k]
      kept == SelectSeq(all, LAMBDA k : cell(k).row * cols + cell(k).col < imageCount)
  IN  [k \in 1..Len(kept) |-> part(kept[k])]

\* layoutParts.slice(0, imageCount)
Slice(seq, count) == SubSeq(seq, 1, IF count < Len(seq) THEN count ELSE Len(seq))

GridLayout(imageCount, width, height) ==
  LET cols == CeilSqrt(imageCount)
      rows == CeilDiv(imageCount, cols)  \* Math.ceil(imageCount / cols)
      cellWidth == CellSize(width, cols)
      cellHeight == CellSize(height, rows)
  IN  [cols |-> cols, rows |-> rows, cellWidth |-> cellWidth, cellHeight |-> cellHeight,
       layout |-> Slice(LayoutParts(imageCount, rows, cols, cellWidth, cellHeight),
                        imageCount)]

InitGrid ==
  /\ state = InitialState
  /\ ffmpeg = FALSE
  /\ loaded = FALSE
  /\ sab = TRUE
  /\ fs = {}
  /\ uploaderFiles = <<>>
  /\ pendingPreview = 0
  /\ files = <<>>
  /\ filesAlias = FALSE
  /\ generateDisabled = TRUE
  /\ displayInput = DISPLAY_DURATION
  /\ transitionInput = TRANSITION_DURATION
  /\ displayDuration = DISPLAY_DURATION
  /\ transitionDuration = TRANSITION_DURATION
  /\ run = [r \in Runs |-> IdleRun]
  /\ regressed = FALSE
  /\ ui = NoUi
  /\ edits = 0
  /\ cIn \in [imageCount : 1..GRID_MAX_FILES, width : GridSizes, height : GridSizes]
  /\ cOut = <<>>

\* the layout part of process(files, options)
ComputeGrid ==
  /\ cOut = <<>>
  /\ cOut' = <<GridLayout(cIn.imageCount, cIn.width, cIn.height)>>
  /\ UNCHANGED <<pipelineVars, edits, displayDuration, transitionDuration, cIn>>

NextGrid == ComputeGrid

SpecGrid == InitGrid /\ [][NextGrid]_vars

\* the slideshow tool with its ProgressBar and spinner mounted
InitUi ==
  /\ state = InitialState
  /\ ffmpeg = FALSE
  /\ loaded = FALSE
  /\ sab \in BOOLEAN
  /\ fs = {}
  /\ uploaderFiles = <<>>
  /\ pendingPreview = 0
  /\ files = <<>>
  /\ filesAlias = FALSE
  /\ generateDisabled = TRUE
  /\ displayInput = DISPLAY_DURATION
  /\ transitionInput = TRANSITION_DURATION
  /\ displayDuration = DISPLAY_DURATION
  /\ transitionDuration = TRANSITION_DURATION
  /\ run = [r \in Runs |-> IdleRun]
  /\ regressed = FALSE
  /\ ui = MountedUi
  /\ edits = 0
  /\ cIn = <<>>
  /\ cOut = <<>>

NextUi ==
  \/ \E b \in Batches : HandleFiles(b)
  \/ PreviewDone
  \/ \E k \in 1..MaxUploaderFiles : RemoveFile(k)
  \/ ClickGenerate
  \/ \E r \in Runs :
       \/ Settle(r)
       \/ \E p \in EngineProgressValues : ExecProgress(r, p)
  \/ BarTimerAt100
  \/ BarTimerIdle

SpecUi == InitUi /\ [][NextUi]_vars

\* the slideshow tool with adding, reordering and generating, where every
\* awaited probe and engine primitive eventually settles
NextLive ==
  \/ \E b \in Batches : HandleFiles(b)
  \/ PreviewDone
  \/ \E a, b \in 1..MaxUploaderFiles : HandleDrop(a, b)
  \/ ClickGenerate
  \/ \E r \in Runs : Settle(r)

SpecLive == Init /\ [][NextLive]_vars /\ \A r \in Runs : WF_vars(Settle(r))

\* file names as file.name.split('.') yields them: one to three segments
NameSegments == {"photo", "png", "JPG", "jpeg", ""}
MaxSegments == 3
Names == UNION {[1..n -> NameSegments] : n \in 1..MaxSegments}
NameIndexes == {0, MAX_FILES_SLIDESHOW - 1}

InitName ==
  /\ state = InitialState
  /\ ffmpeg = FALSE
  /\ loaded = FALSE
  /\ sab = TRUE
  /\ fs = {}
  /\ uploaderFiles = <<>>
  /\ pendingPreview = 0
  /\ files = <<>>
  /\ filesAlias = FALSE
  /\ generateDisabled = TRUE
  /\ displayInput = DISPLAY_DURATION
  /\ transitionInput = TRANSITION_DURATION
  /\ displayDuration = DISPLAY_DURATION
  /\ transitionDuration = TRANSITION_DURATION
  /\ run = [r \in Runs |-> IdleRun]
  /\ regressed = FALSE
  /\ ui = NoUi
  /\ edits = 0
  /\ cIn \in {[i |-> i, name |-> n] : i \in NameIndexes, n \in Names}
  /\ cOut = <<>>

\* const filename = `input${i}.${this.getExtension(file)}`
GenerateName ==
  /\ cOut = <<>>
  /\ cOut' = FileName(cIn.i, GetExtension(cIn.name))
  /\ UNCHANGED <<pipelineVars, edits, displayDuration, transitionDuration, cIn>>

NextName == GenerateName

SpecName == InitName /\ [][NextName]_vars

(***************************************************************************)
(* StateManager.setState on its own: any state the store can hold, any     *)
(* partial update of it.                                                   *)
(***************************************************************************)
FlagKeys == {"ffmpegLoaded", "ffmpegLoading", "processing"}
ProgressValues == {0, 50, 100, NaN}
ErrorValues == {"null", "failed"}
States ==
  {f @@ [progress |-> p, error |-> e] :
     f \in [FlagKeys -> BOOLEAN], p \in ProgressValues, e \in ErrorValues}
\* Partial<AppState>: any subset of the keys, each with a value of its type
Updates ==
  {f @@ p @@ e :
     f \in UNION {[S -> BOOLEAN] : S \in SUBSET FlagKeys},
     p \in {<<>>} \cup {[progress |-> v] : v \in ProgressValues},
     e \in {<<>>} \cup {[error |-> v] : v \in ErrorValues}}

\* the notify calls of one setState(updates) at st: one per changed key, then
\* one for '*' if changedKeys.length > 0
Notified(st, updates) ==
  [keys |-> ChangedKeys(st, updates),
   star |-> IF ChangedKeys(st, updates) # {} THEN 1 ELSE 0,
   before |-> st]

InitSetState ==
  /\ state \in States
  /\ ffmpeg = FALSE
  /\ loaded = FALSE
  /\ sab = TRUE
  /\ fs = {}
  /\ uploaderFiles = <<>>
  /\ pendingPreview = 0
  /\ files = <<>>
  /\ filesAlias = FALSE
  /\ generateDisabled = TRUE
  /\ displayInput = DISPLAY_DURATION
  /\ transitionInput = TRANSITION_DURATION
  /\ displayDuration = DISPLAY_DURATION
  /\ transitionDuration = TRANSITION_DURATION
  /\ run = [r \in Runs |-> IdleRun]
  /\ regressed = FALSE
  /\ ui = NoUi
  /\ edits = 0
  /\ cIn \in Updates
  /\ cOut = <<>>

\* stateManager.setState(updates)
CallSetState ==
  /\ cOut = <<>>
  /\ state' = SetState(state, cIn)
  /\ cOut' = <<Notified(state, cIn)>>
  /\ UNCHANGED <<ffmpeg, loaded, sab, fs, uploaderFiles, pendingPreview, files,
                 filesAlias, generateDisabled, displayInput, transitionInput,
                 displayDuration, transitionDuration, run, regressed, ui, edits, cIn>>

NextSetState == CallSetState

SpecSetState == InitSetState /\ [][NextSetState]_vars

DirectLists == UNION {[1..n -> FileIds] : n \in 0..MaxUploaderFiles}

NextDirect ==
  \/ \E fl \in DirectLists : CallProcess(fl)
  \/ \E r \in Runs :
       \/ AnalyzeDone(r)
       \/ AnalyzeFail(r)
       \/ LoadDone(r)
       \/ LoadFail(r)
       \/ AfterAcquire(r)
       \/ WriteDone(r)
       \/ WriteFail(r)
       \/ \E p \in EngineProgressValues : ExecProgress(r, p)
       \/ ExecDone(r)
       \/ ExecFail(r)
       \/ ReadDone(r)
       \/ ReadFail(r)
       \/ \E ok \in BOOLEAN : DeleteDone(r, ok)

SpecDirect == Init /\ [][NextDirect]_vars

\* FFmpegManager.terminate(): a no-op without a handle; otherwise the engine
\* is terminated, the handle dropped, loaded cleared and ffmpegLoaded: false
\* published. The engine's storage goes with it. A load or primitive that was
\* in flight is left to settle either way.
Terminate ==
  /\ ffmpeg
  /\ ffmpeg' = FALSE
  /\ loaded' = FALSE
  /\ fs' = {}
  /\ LET up == [ffmpegLoaded |-> FALSE]
     IN  /\ run' = NotifyWaiters(run, state, up)
         /\ Publish(<<up>>, FALSE)
  /\ UNCHANGED generateDisabled
  /\ UNCHANGED_ui

\* process() called directly, with terminate() called at any moment
NextEngine ==
  \/ NextDirect
  \/ Terminate

SpecEngine == Init /\ [][NextEngine]_vars

(***************************************************************************)
(* Properties.                                                             *)
(***************************************************************************)
EndedRuns == {r \in Runs : run[r].pc \in {"done", "failed"}}
LoadingRuns == {r \in Runs : run[r].pc = "loading"}
WaitingRuns == {r \in Runs : run[r].pc = "waitEngine"}

\* C1: an initialize() call that arrives while a load is in flight starts no
\* second load: at most one call is inside ffmpeg.load() at any time, a call
\* that joined a load has started none itself, and while the load it joined
\* is in flight exactly one call is loading.
C1_SingleFlightLoad ==
  /\ Cardinality(LoadingRuns) <= 1
  /\ \A r \in Runs : run[r].joined => ~run[r].started
  /\ (WaitingRuns # {} /\ state.ffmpegLoading) => Cardinality(LoadingRuns) = 1

\* C1 witness: one call is loading the engine while another waits for it
C1_Witness == LoadingRuns # {} /\ WaitingRuns # {}

\* C2: a call that joined an in-flight load observes the outcome of the call
\* that started it: once the starter's load has settled, the joiner has
\* settled too, with the same value.
C2_JoinerSeesOutcome ==
  \A r, q \in Runs :
    (run[r].joined /\ run[q].started /\ run[q].ready # "undefined")
      => run[r].ready = run[q].ready

\* C3: when no run is active any more and a run has ended (completed or
\* failed at any stage), the processing flag is false.
C3_FlagResetAtEnd ==
  (ActiveRuns(run) = {} /\ EndedRuns # {}) => ~state.processing

\* C4: when a run has ended, on the success path or on a failure path, none
\* of the files it wrote (staged inputs, output artifact) is left in the
\* engine's working storage.
C4_CleanAtEnd ==
  \A r \in EndedRuns : \A e \in fs : e.by # r

\* C5: while a run is active the published progress is within 0..100, and no
\* setState made by a running process() call, or by the initialize() it
\* calls, or by the engine's progress events, has lowered it.
C5_ProgressMonotone ==
  /\ ~regressed
  /\ ActiveRuns(run) # {} => state.progress \in 0..100

\* C6: at most one process() call of the controller's processor is in flight
\* at any time.
C6_AtMostOneRun == Cardinality(ActiveRuns(run)) <= 1

Compiled == cOut # <<>>
Transforms == {k \in 1..Len(cOut) : cOut[k].kind = "transform"}
Xfades == {k \in 1..Len(cOut) : cOut[k].kind = "xfade"}
\* the statement of crossfade i (0-based), which follows the N transforms
XfadeOf(i) == cOut[cIn.numImages + 1 + i]
\* a toFixed(2) text as a number of hundredths
Hundredths(t) == t.int * 100 + t.frac

\* C8: the compiled graph of N inputs (2 <= N <= 20) holds exactly N
\* transform statements and exactly N - 1 crossfade statements.
C8_NodeCounts ==
  Compiled =>
    /\ Cardinality(Transforms) = cIn.numImages
    /\ Cardinality(Xfades) = cIn.numImages - 1
    /\ Len(cOut) = 2 * cIn.numImages - 1

\* C8 witness: a graph of the maximum input count was compiled
C8_Witness == Compiled /\ cIn.numImages = MAX_FILES_SLIDESHOW

\* C9: the trim duration of slide i is D + T/2 for the first and the last
\* slide and D + T for every slide between them.
C9_SlideDurations ==
  Compiled =>
    \A k \in 1..cIn.numImages :
      /\ cOut[k].kind = "transform"
      /\ cOut[k].out = <<"v", k - 1>>
      /\ IF k = 1 \/ k = cIn.numImages
         THEN 2 * cOut[k].trim = 2 * displayDuration + transitionDuration
         ELSE cOut[k].trim = displayDuration + transitionDuration

\* C9 witness: a graph with interior slides was compiled with non-default durations
C9_Witness ==
  /\ Compiled
  /\ cIn.numImages >= 3
  /\ displayDuration = 4660
  /\ transitionDuration = 202

\* C10: the offset of crossfade i is D * (i + 1) written with exactly two
\* decimals (the nearest hundredth, and exact when D * (i + 1) is a whole
\* number of hundredths), the offsets strictly increase along the chain, and
\* every crossfade has duration T.
C10_XfadeOffsets ==
  Compiled =>
    \A i \in 0..(cIn.numImages - 2) :
      LET x == XfadeOf(i)
          exact == 100 * displayDuration * (i + 1)
          diff == Hundredths(x.offset) * Scale - exact
      IN  /\ x.kind = "xfade"
          /\ x.offset.frac \in 0..99
          /\ 2 * diff <= Scale /\ 0 - 2 * diff <= Scale
          /\ (exact % Scale = 0) => diff = 0
          /\ i > 0 => Hundredths(XfadeOf(i - 1).offset) < Hundredths(x.offset)
          /\ x.duration = transitionDuration

\* C10 witness: a chain of 19 crossfades was compiled for D = 0.502 s, whose
\* multiples are not whole hundredths: 0.502 is written 0.50, 9.538 is 9.54
C10_Witness ==
  /\ Compiled
  /\ cIn.numImages = MAX_FILES_SLIDESHOW
  /\ displayDuration = 1004
  /\ Hundredths(XfadeOf(0).offset) = 50
  /\ Hundredths(XfadeOf(18).offset) = 954

\* C11: crossfade i takes as its first input the output of crossfade i - 1
\* (the first transform stream v0 when i = 0) and as its second input the
\* output of transform i + 1; the last crossfade emits the label that
\* process() passes to -map, so that with 2 images the single crossfade joins
\* v0 and v1 into the sink.
C11_ChainTopology ==
  Compiled =>
    /\ \A i \in 0..(cIn.numImages - 2) :
         /\ XfadeOf(i).kind = "xfade"
         /\ XfadeOf(i).inputA = IF i = 0 THEN cOut[1].out ELSE XfadeOf(i - 1).out
         /\ XfadeOf(i).inputB = cOut[i + 2].out
         /\ cOut[i + 2].kind = "transform"
         /\ cOut[i + 2].input = <<i + 1, "v">>
    /\ cOut[1].input = <<0, "v">>
    /\ XfadeOf(cIn.numImages - 2).out = SinkLabel
    /\ cOut[Len(cOut)] = XfadeOf(cIn.numImages - 2)

\* C11 witness: a chain of 19 crossfades, the last of which takes the output
\* of crossfade 17 and the stream v19 and emits the sink
C11_Witness ==
  /\ Compiled
  /\ cIn.numImages = MAX_FILES_SLIDESHOW
  /\ XfadeOf(18).inputA = XfadeOf(17).out
  /\ XfadeOf(18).inputB = <<"v", 19>>
  /\ XfadeOf(18).out = SinkLabel

\* C12: within one compiled graph no two statements, transform or crossfade,
\* emit the same label text.
C12_UniqueLabels ==
  Compiled =>
    \A k, l \in 1..Len(cOut) :
      k # l => LabelText(cOut[k].out) # LabelText(cOut[l].out)

\* C12 witness: a graph of 20 images was compiled, whose 39 statements emit
\* v0..v19, vout1..vout18 and vfinal
C12_Witness ==
  /\ Compiled
  /\ cIn.numImages = MAX_FILES_SLIDESHOW
  /\ Cardinality({LabelText(cOut[k].out) : k \in 1..Len(cOut)}) = 39
  /\ LabelText(cOut[20].out) = "v19"
  /\ LabelText(cOut[38].out) = "vout18"
  /\ LabelText(cOut[39].out) = "vfinal"

\* the exact value of ceil(duration * fps) for a duration in units
ExactFrameCount(duration, fps) == CeilDiv(duration * fps, Scale)

\* C13: for every slide, frameCount = ceil(duration * fps) is at least 1 and
\* the emitted loop count is max(0, frameCount - 1); for D = 1.5, T = 0.5,
\* fps = 30 and 3 slides the loop counts are 52, 59, 52.
C13_LoopCounts ==
  Compiled =>
    /\ \A k \in 1..cIn.numImages :
         LET frameCount == ExactFrameCount(cOut[k].trim, cOut[k].fps)
         IN  /\ frameCount >= 1
             /\ cOut[k].loop = IF frameCount - 1 > 0 THEN frameCount - 1 ELSE 0
    /\ (cIn.numImages = 3 /\ displayDuration = DISPLAY_DURATION
           /\ transitionDuration = TRANSITION_DURATION)
         => <<cOut[1].loop, cOut[2].loop, cOut[3].loop>> = <<52, 59, 52>>

\* C14: when a run's image analysis resolves, the canvas it computes is
\* width = maxWidth + (maxWidth mod 2) and height = maxHeight + (maxHeight mod 2)
\* over the images analysed: both are even, no analysed image is wider or
\* higher than the canvas, and each exceeds the maximum by at most 1.
C14_EvenCanvas ==
  [][\A r \in Runs :
       (run[r].pc = "analyzing" /\ run'[r].pc \notin {"analyzing", "failed"})
         => LET fl == run[r].probed
                w == run'[r].width
                h == run'[r].height
                ws == {WidthOf(fl[k]) : k \in 1..Len(fl)}
                hs == {HeightOf(fl[k]) : k \in 1..Len(fl)}
            IN  /\ w % 2 = 0 /\ h % 2 = 0
                /\ \A x \in ws : x <= w
                /\ \A y \in hs : y <= h
                /\ \E x \in ws : w = x + (x % 2)
                /\ \E y \in hs : h = y + (y % 2)
                /\ \E x \in ws : w - x <= 1
                /\ \E y \in hs : h - y <= 1]_vars

\* C14 witness: a run analysed images of 100x201 and 301x100 pixels, both
\* maxima odd, and is staging on a canvas of 302x202
C14_Witness ==
  \E r \in Runs :
    /\ run[r].pc = "staging"
    /\ {run[r].files[k] : k \in 1..Len(run[r].files)} = {1, 2}
    /\ run[r].width = 302
    /\ run[r].height = 202

\* the runs that have compiled their graph and not ended
CompiledRuns == {r \in Runs : run[r].pc \in {"executing", "reading", "cleaning"}}

C16_TooFewFailsFast ==
  \A r \in Runs :
    (run[r].pc # "idle" /\ run[r].given < 2)
      => /\ run[r].pc = "failed"
         /\ run[r].err = "At least 2 images required"
         /\ run[r].calls = {}
         /\ ~run[r].started /\ ~run[r].joined /\ run[r].ready = "undefined"
         /\ \A e \in fs : e.by # r

\* C16 witness: a call given exactly 1 image has failed, while the engine is
\* loaded for another call
C16_Witness ==
  \E r \in Runs :
    /\ run[r].given = 1
    /\ run[r].pc = "failed"
    /\ run[r].err = "At least 2 images required"
    /\ loaded

InDisplayRange(d) == DISPLAY_DURATION_MIN <= d /\ d <= DISPLAY_DURATION_MAX
InTransitionRange(t) == TRANSITION_DURATION_MIN <= t /\ t <= TRANSITION_DURATION_MAX

\* C17: a generate request whose display duration is a number outside
\* 0.5..10 s or whose transition duration is a number outside 0.1..3 s starts
\* no run (it fails with
\* the invalid-duration error before compilation and before any engine
\* interaction), and no graph is compiled with a D or T outside the ranges.
C17_InvalidDurationRejected ==
  /\ \A r \in Runs :
       run[r].pc # "idle"
         => /\ run[r].reqD = NaN \/ InDisplayRange(run[r].reqD)
            /\ run[r].reqT = NaN \/ InTransitionRange(run[r].reqT)
  /\ \A r \in CompiledRuns : InDisplayRange(run[r].d) /\ InTransitionRange(run[r].t)

\* C18: a run requested with transition duration 0 compiles a graph whose
\* crossfades have duration 0 and whose slides all have duration D.
C18_ZeroTransitionHardCut ==
  \A r \in CompiledRuns :
    run[r].reqT = 0
      => \A k \in 1..Len(run[r].graph) :
           /\ run[r].graph[k].kind = "xfade" => run[r].graph[k].duration = 0
           /\ run[r].graph[k].kind = "transform" => run[r].graph[k].trim = run[r].d

\* the steps a process() call can take from one position to another
StageSteps ==
  {<<"idle", "analyzing">>, <<"analyzing", "loading">>, <<"analyzing", "waitEngine">>,
   <<"analyzing", "acquired">>, <<"loading", "acquired">>, <<"waitEngine", "acquired">>,
   <<"acquired", "staging">>, <<"acquired", "executing">>, <<"staging", "executing">>,
   <<"executing", "reading">>, <<"reading", "cleaning">>, <<"reading", "done">>,
   <<"cleaning", "done">>}
  \cup {<<p, "failed">> : p \in {"idle", "analyzing", "loading", "waitEngine", "acquired",
                                  "staging", "executing", "reading", "cleaning"}}

\* C19: every run goes through analysis, engine acquisition, staging,
\* compilation and execution, retrieval, cleanup and completion in that
\* order; a failure can end it from any stage, and no stage is entered out of
\* order or a second time.  The engine is executed only when the staging loop
\* is over and no write is in flight, the output is read only after the
\* execution, and files are deleted only after the output was read.
C19_StageOrder ==
  /\ [](\A r \in Runs :
         /\ run[r].pc = "executing"
              => /\ ~(run[r].i < Len(run[r].files))
                 /\ run[r].writing = <<>>
                 /\ Len(run[r].inputFiles) = run[r].i
         /\ "write" \in run[r].calls => run[r].ready = "true"
         /\ "exec" \in run[r].calls
              => run[r].pc \in {"executing", "reading", "cleaning", "done", "failed"}
         /\ "read" \in run[r].calls
              => /\ "exec" \in run[r].calls
                 /\ run[r].pc \in {"reading", "cleaning", "done", "failed"}
         /\ "delete" \in run[r].calls
              => /\ "read" \in run[r].calls
                 /\ run[r].pc \in {"cleaning", "done"}
         /\ run[r].pc = "done" => {"exec", "read", "delete"} \subseteq run[r].calls)
  /\ [][\A r \in Runs :
          run'[r].pc # run[r].pc => <<run[r].pc, run'[r].pc>> \in StageSteps]_vars

\* C19 witness: a run has completed after writing its inputs, executing,
\* reading the output and deleting its files
C19_Witness ==
  \E r \in Runs :
    run[r].pc = "done" /\ run[r].calls = {"write", "exec", "read", "delete"}

Flag(text) == [tag |-> "flag", text |-> text]

\* C20: the argument list handed to the engine is one '-i' <name> pair per
\* staged input in staging order, then '-filter_complex' and the graph, then
\* '-map' and the sink label, then flags, '-y' and the output name last; the
\* number of '-i' pairs equals the number of transform statements, and each
\* input index 0..n-1 is read by exactly one transform statement.
C20_ArgvShape ==
  \A r \in CompiledRuns :
    LET a == run[r].argv
        g == run[r].graph
        n == Len(run[r].inputFiles)
    IN  /\ Len(a) = 2 * n + 14
        /\ \A k \in 1..n :
             /\ a[2 * k - 1] = Flag("-i")
             /\ a[2 * k] = [tag |-> "file", name |-> run[r].inputFiles[k]]
        /\ a[2 * n + 1] = Flag("-filter_complex")
        /\ a[2 * n + 2] = [tag |-> "graph", stmts |-> g]
        /\ a[2 * n + 3] = Flag("-map")
        /\ a[2 * n + 4] = [tag |-> "label", label |-> SinkLabel]
        /\ \A k \in (2 * n + 5)..(Len(a) - 2) : a[k].tag = "flag" /\ a[k] # Flag("-i")
        /\ a[Len(a) - 1] = Flag("-y")
        /\ a[Len(a)] = [tag |-> "file", name |-> OutputFile]
        /\ Cardinality({k \in 1..Len(a) : a[k] = Flag("-i")})
             = Cardinality({k \in 1..Len(g) : g[k].kind = "transform"})
        /\ \A k \in 1..Len(g) : g[k].kind = "transform" => g[k].input[1] \in 0..(n - 1)
        /\ \A j \in 0..(n - 1) :
             Cardinality({k \in 1..Len(g) :
                            g[k].kind = "transform" /\ g[k].input = <<j, "v">>}) = 1

\* C20 witness: the engine is executing a run whose two staged inputs
\* input0.png and input1.jpg are the first and the second '-i' argument
C20_Witness ==
  \E r \in Runs :
    /\ run[r].pc = "executing"
    /\ run[r].inputFiles = <<InputName(0, 1), InputName(1, 2)>>
    /\ run[r].argv[2].name = InputName(0, 1)
    /\ run[r].argv[4].name = InputName(1, 2)
    /\ Len(run[r].argv) = 18

\* the runs that hold staged inputs
StagedRuns == {r \in Runs : run[r].pc \in {"staging", "executing", "reading", "cleaning"}}

\* C21: the k-th file of the list given to the run is the k-th staged input,
\* staged under the name of index k - 1; once compiled, it is the k-th '-i'
\* argument and the stream read by transform statement k, and the slides
\* enter the crossfade chain in that order (v0 first, then v1, v2, ...).
C21_OrderPreserved ==
  \A r \in StagedRuns :
    LET rr == run[r]
        n == Len(rr.inputFiles)
    IN  /\ Len(rr.staged) = n
        /\ n <= Len(rr.input)
        /\ \A k \in 1..n :
             /\ rr.staged[k] = rr.input[k]
             /\ rr.inputFiles[k] = InputName(k - 1, rr.input[k])
        /\ r \in CompiledRuns =>
             \A k \in 1..n :
               /\ rr.argv[2 * k] = [tag |-> "file", name |-> rr.inputFiles[k]]
               /\ rr.graph[k].kind = "transform"
               /\ rr.graph[k].input = <<k - 1, "v">>
               /\ rr.graph[k].out = <<"v", k - 1>>
               /\ k >= 2 =>
                    /\ rr.graph[n + k - 1].kind = "xfade"
                    /\ rr.graph[n + k - 1].inputB = <<"v", k - 1>>
                    /\ rr.graph[n + k - 1].inputA =
                         IF k = 2 THEN <<"v", 0>> ELSE rr.graph[n + k - 2].out

\* the name has an extension: a dot, and something after the last dot
HasExtension(parts) == Len(parts) >= 2 /\ parts[Len(parts)] # ""

\* C22: the name an input is staged under ends with the original file's
\* extension (in lower case), and with the default extension 'jpg' when the
\* original name has no dot or nothing after its last dot.
C22_ExtensionKept ==
  cOut # <<>> =>
    /\ cOut[1] = "input"
    /\ cOut[2] = cIn.i
    /\ cOut[3] = IF HasExtension(cIn.name)
                 THEN ToLowerCase(cIn.name[Len(cIn.name)])
                 ELSE "jpg"

\* the runs whose staged inputs are still needed: staged and not yet executed
NeedingRuns == {r \in Runs : run[r].pc \in {"staging", "executing"}}

\* C23: while a run still needs its staged inputs, its staged names are
\* pairwise distinct and each of them names, in the engine's storage, the
\* file that this run wrote: none was overwritten or deleted by another
\* write before the run has executed.
C23_StagedNamesCollisionFree ==
  \A r \in NeedingRuns :
    LET names == run[r].inputFiles
    IN  /\ \A j, k \in 1..Len(names) : names[j] = names[k] => j = k
        /\ \A k \in 1..Len(names) : [name |-> names[k], by |-> r] \in fs

\* the engine primitives called inside the try block before cleanup
TryCalls == {"write", "exec", "read"}
\* the stages in which a primitive of the try block is awaited
TryStages == {"staging", "executing", "reading"}

\* C24: the engine's run primitive is called at most once in a run; a run
\* that fails in staging, execution or retrieval ends with the one
\* normalized processing error; the failing step calls no further engine
\* primitive and leaves the engine's storage as it is, and a failed run takes
\* no further step.
C24_SingleExecNoRecovery ==
  /\ [](\A r \in Runs :
         /\ run[r].execs <= 1
         /\ run[r].execs = 1 <=> "exec" \in run[r].calls
         /\ (run[r].pc = "failed" /\ run[r].calls \cap TryCalls # {})
              => run[r].err = "ERROR_PROCESSING")
  /\ [][\A r \in Runs :
          /\ (run[r].pc \in TryStages /\ run'[r].pc = "failed")
               => /\ run'[r].err = "ERROR_PROCESSING"
                  /\ run'[r].calls = run[r].calls
                  /\ run'[r].execs = run[r].execs
                  /\ \A e \in fs' : e.by = r => e \in fs
                  /\ \A e \in fs : e.by = r => e \in fs'
          /\ run[r].pc = "failed" => run'[r] = run[r]]_vars

\* C24 witness: a run has failed with the processing error after its one
\* engine invocation was rejected, and the inputs it staged are still stored
C24_Witness ==
  \E r \in Runs :
    /\ run[r].pc = "failed"
    /\ run[r].err = "ERROR_PROCESSING"
    /\ run[r].execs = 1
    /\ "read" \notin run[r].calls
    /\ \E e \in fs : e.by = r

\* C25: a deletion that is rejected during cleanup, because the file is absent
\* or for any other reason, does not fail the run: from cleanup a run goes
\* only to the deletion of the next file of the list, or completes once the
\* last file of the list has been attempted.
C25_CleanupTolerant ==
  /\ [](\A r \in Runs :
         run[r].pc = "cleaning"
           => /\ run[r].j \in 1..Len(run[r].list)
              /\ run[r].list = Append(run[r].inputFiles, OutputFile))
  /\ [][\A r \in Runs :
          (run[r].pc = "cleaning" /\ <<run'[r].pc, run'[r].j>> # <<run[r].pc, run[r].j>>)
            => \/ /\ run'[r].pc = "cleaning"
                  /\ run'[r].j = run[r].j + 1
                  /\ run'[r].list = run[r].list
               \/ /\ run'[r].pc = "done"
                  /\ run'[r].err = "none"
                  /\ run[r].j = Len(run[r].list)]_vars

\* C25 witness: a run has completed although the deletion of its first input
\* was rejected (the file is still stored), and the output, later in the
\* list, was deleted all the same
C25_Witness ==
  \E r \in Runs :
    /\ run[r].pc = "done"
    /\ [name |-> InputName(0, 1), by |-> r] \in fs
    /\ \A e \in fs : e.name # OutputFile

\* the runs whose process() has called initialize()
InitializeCalled == {r \in Runs : run[r].started \/ run[r].joined \/ run[r].ready # "undefined"}

\* C26: before the first initialize() call there is no engine handle, no load
\* in flight and no loaded engine; and when initialize() is called while the
\* engine is loaded it returns true at once, starts no load, joins none, and
\* publishes nothing (the state changes only by the progress 10 that
\* process() published before the call).
C26_LazyIdempotent ==
  /\ [](InitializeCalled = {}
          => /\ ~ffmpeg
             /\ ~loaded
             /\ ~state.ffmpegLoading
             /\ ~state.ffmpegLoaded)
  /\ [][\A r \in Runs :
          (loaded /\ run[r].pc = "analyzing" /\ run'[r].pc \notin {"analyzing", "failed"})
            => /\ run'[r].pc = "acquired"
               /\ run'[r].ready = "true"
               /\ ~run'[r].started
               /\ ~run'[r].joined
               /\ ffmpeg' = ffmpeg
               /\ loaded' = loaded
               /\ state' = SetState(state, [progress |-> 10])]_vars

\* C26 witness: a run that neither started nor joined a load holds a ready
\* engine, which another run loaded
C26_Witness ==
  \E r, q \in Runs :
    /\ run[r].pc = "acquired"
    /\ run[r].ready = "true"
    /\ ~run[r].started
    /\ ~run[r].joined
    /\ run[q].started
    /\ run[q].ready = "true"
    /\ loaded

FailedRuns == {r \in Runs : run[r].pc = "failed"}
\* the runs whose own engine load was rejected
LoadFailedRuns == {r \in FailedRuns : run[r].started /\ run[r].err = "ERROR_FFMPEG_LOAD"}
\* the step in which run r calls initialize() and goes on
CallsInitialize(r) ==
  run[r].pc = "analyzing" /\ run'[r].pc \notin {"analyzing", "failed"}

\* C27: once a run has failed, the engine is marked as loading only while a
\* load is really in flight, and a loaded engine has its handle; a loaded
\* engine stays loaded, and the next initialize() then returns ready without
\* a load; after a rejected load, with no other load in flight, the next
\* initialize() starts a fresh load.
C27_RestingState ==
  /\ [](FailedRuns # {}
          => /\ state.ffmpegLoading => LoadingRuns # {}
             /\ loaded => ffmpeg)
  /\ [][/\ loaded => loaded'
        /\ \A r \in Runs :
             /\ (FailedRuns # {} /\ loaded /\ CallsInitialize(r))
                  => /\ run'[r].pc = "acquired"
                     /\ run'[r].ready = "true"
                     /\ ~run'[r].started
                     /\ LoadingRuns' = LoadingRuns
             /\ (LoadFailedRuns # {} /\ ~loaded /\ LoadingRuns = {} /\ CallsInitialize(r))
                  => /\ run'[r].pc = "loading"
                     /\ run'[r].started
                     /\ state'.ffmpegLoading]_vars

\* C27 witness: after a run's load was rejected, a later run has started a
\* fresh load, which is in flight
C27_Witness ==
  \E r, q \in Runs :
    /\ q \in LoadFailedRuns
    /\ run[r].pc = "loading"
    /\ run[r].started
    /\ state.ffmpegLoading
    /\ ~loaded

\* C27 second case: a run has failed in the try block with the engine loaded,
\* and a later run got the ready engine without starting a load
C27_WitnessLoaded ==
  \E r, q \in Runs :
    /\ run[q].pc = "failed"
    /\ run[q].err = "ERROR_PROCESSING"
    /\ loaded
    /\ run[r].pc = "acquired"
    /\ run[r].ready = "true"
    /\ ~run[r].started
    /\ ~run[r].joined

\* the band of the stage a run is in; a completed run is at the end of cleanup
StageBand(pc) ==
  CASE pc = "analyzing" -> 0..10
    [] pc \in {"waitEngine", "loading", "acquired"} -> 10..20
    [] pc = "staging" -> 20..40
    [] pc = "executing" -> 40..90
    [] pc = "reading" -> 90..95
    [] pc \in {"cleaning", "done"} -> 95..100
    [] OTHER -> 0..100

\* a step of the pipeline (not a form or uploader event) of which run r is
\* part: r's process() resumes, or the engine reports progress while r executes
PipelineStepOf(r) ==
  /\ edits' = edits
  /\ pendingPreview' = pendingPreview
  /\ \/ run'[r].pc # run[r].pc
     \/ run'[r].i # run[r].i
     \/ run'[r].j # run[r].j
     \/ run' = run /\ run[r].pc = "executing"

\* C28: a progress value that a pipeline step publishes lies within the band
\* of the stage in which a run taking part in that step then is (analysis
\* 0-10, engine acquisition 10-20, staging 20-40, execution 40-90, retrieval
\* 90-95, cleanup 95-100); and the value shown after a write that leaves the
\* run in staging is 20 plus the written share of the 20 points of the band.
C28_ProgressBands ==
  [][state'.progress # state.progress /\ (\E r \in Runs : PipelineStepOf(r))
       => \E r \in Runs :
            /\ PipelineStepOf(r)
            /\ state'.progress \in StageBand(run'[r].pc)
            /\ (run[r].pc = "staging" /\ run'[r].pc = "staging" /\ Len(run'[r].files) > 0)
                 => state'.progress =
                      20 + (Len(run'[r].inputFiles) * 20) \div Len(run'[r].files)]_vars

\* C29: every run that has started eventually ends, its promise resolved
\* (done) or rejected (failed), when every probe and every engine primitive
\* eventually settles; this includes the runs that joined a load in flight.
C29_RunsEnd ==
  \A r \in Runs : (run[r].pc # "idle") ~> (run[r].pc \in {"done", "failed"})

\* C30: the state key 'processing' is true at every moment at which a run is
\* between its start and its end.
C30_ProcessingWhileRunning ==
  ActiveRuns(run) # {} => state.processing

\* C31: the files a run stages are a prefix, in order, of the list it was
\* given at its start; the graph is compiled for exactly the files of that
\* list, in its order; and the canvas is the even-rounded maximum size of
\* the staged files.
C31_RunKeepsGivenList ==
  \A r \in StagedRuns :
    /\ Len(run[r].staged) <= Len(run[r].input)
    /\ run[r].staged = SubSeq(run[r].input, 1, Len(run[r].staged))
    /\ r \in CompiledRuns
         => /\ run[r].staged = run[r].input
            /\ Cardinality({k \in 1..Len(run[r].graph) :
                               run[r].graph[k].kind = "transform"}) = Len(run[r].input)
            /\ run[r].width = EvenUp(MaxWidthOf(run[r].staged))
            /\ run[r].height = EvenUp(MaxHeightOf(run[r].staged))

\* C32: the durations a run started by generate() compiles its graph with
\* are the ones that request read from the form and validated.
C32_RunKeepsRequestedDurations ==
  \A r \in CompiledRuns :
    run[r].caller = "generate"
      => /\ run[r].d = OrDefault(run[r].reqD, DISPLAY_DURATION)
         /\ run[r].t = OrDefault(run[r].reqT, TRANSITION_DURATION)

\* C33: whenever the manager's loaded flag is true its engine handle is not
\* null, and the loaded flag equals the published state key ffmpegLoaded.
C33_LoadedHasHandle ==
  /\ loaded => ffmpeg
  /\ loaded = state.ffmpegLoaded

\* C34: the state keys ffmpegLoading and ffmpegLoaded are never both true,
\* neither in the state a handler leaves behind nor in any state in which a
\* setState call notified its subscribers.
C34_LoadingLoadedExclusive ==
  /\ ~(state.ffmpegLoading /\ state.ffmpegLoaded)
  /\ ~ui.both

\* C34 witness: subscribers were notified of the change from loading to
\* loaded made by one setState: the engine is loaded, no longer loading, and
\* the run that started the load holds the ready engine
C34_Witness ==
  /\ ui.tracked
  /\ state.ffmpegLoaded
  /\ ~state.ffmpegLoading
  /\ ui.bar = 100
  /\ \E r \in Runs : run[r].pc = "acquired" /\ run[r].started /\ run[r].ready = "true"

\* this.state[key] !== value; of the values the keys hold, only NaN differs
\* from itself
StrictlyDiffers(k, a, b) == a # b \/ (k = "progress" /\ b = NaN)

\* C35: setState notifies the subscribers of exactly the keys of the update
\* whose value differs from the current one under !==, and the '*'
\* subscribers once if there is such a key; the keys of the update take the
\* update's values and no other key changes; an update with no differing
\* value leaves the state as it was and notifies nobody.
C35_NotifiesChangedKeys ==
  cOut # <<>> =>
    LET st == cOut[1].before
        differing == {k \in DOMAIN cIn : StrictlyDiffers(k, st[k], cIn[k])}
    IN  /\ cOut[1].keys = differing
        /\ cOut[1].star = (IF differing = {} THEN 0 ELSE 1)
        /\ \A k \in DOMAIN state :
             state[k] = (IF k \in differing THEN cIn[k] ELSE st[k])
        /\ differing = {} => state = st /\ cOut[1].keys = {} /\ cOut[1].star = 0

C35_Witness ==
  /\ cOut # <<>>
  /\ cOut[1].keys = {"progress"}
  /\ DOMAIN cIn = {"ffmpegLoading", "processing", "progress"}
  /\ cOut[1].star = 1

\* C36: the progress the ProgressBar shows is, whenever a handler has run to
\* its end, a number of [0, 100], and it only ever decreases by a hide of the
\* bar, which sets it to 0: an update carrying a lower progress than the one
\* shown leaves it as it is.
C36_BarClampedMonotone ==
  /\ [](ui.bar \in 0..100)
  /\ [][ui'.bar < ui.bar => ui'.bar = 0 /\ ui'.hidden]_vars

\* the runs whose graph the engine has started executing
ExecutedRuns == {r \in Runs : run[r].execs > 0}

\* C37: the 'Finalizing video...' spinner is visible, or the progress bar is
\* hidden while processing is set, only once the engine has started
\* executing a run's graph; not during analysis, acquisition or staging.
C37_SpinnerAfterExecStart ==
  (ui.spinner \/ (ui.hidden /\ state.processing)) => ExecutedRuns # {}

\* C38: handleFiles adds a batch whole or not at all: when a file of the
\* batch is invalid, or the batch would take the total above maxFiles, the
\* held files stay as they are, no preview is started and nothing is emitted
\* (the controller's list, the Generate button and the store are untouched);
\* otherwise the whole batch is appended.  The number of held files never
\* exceeds maxFiles.
C38_AllOrNothing ==
  /\ [](Len(uploaderFiles) <= MaxUploaderFiles)
  /\ [][cOut' # cOut =>
          LET batch == cOut'[1].batch
          IN  IF (\E k \in 1..Len(batch) : batch[k] = InvalidFile)
                   \/ Len(uploaderFiles) + Len(batch) > MaxUploaderFiles
              THEN UNCHANGED <<uploaderFiles, pendingPreview, files, filesAlias,
                               generateDisabled, state>>
              ELSE uploaderFiles' = uploaderFiles \o batch]_vars

\* one file is held, and the latest edit was a batch of a valid and an
\* invalid file
C38_Witness ==
  /\ cOut # <<>>
  /\ cOut[1].n = edits
  /\ cOut[1].batch = <<2, InvalidFile>>
  /\ uploaderFiles = <<1>>
  /\ files = <<1>>

\* C39: for every image count n of 1..20 and every output of at least
\* 100 x 100, the grid has cols = ceil(sqrt(n)) columns and rows =
\* ceil(n / cols) rows, rows * cols >= n, exactly n cell positions, pairwise
\* distinct, and every cell of floor(width / cols) x floor(height / rows) at
\* its position lies inside the width x height output.
C39_GridLayout ==
  cOut # <<>> =>
    LET n == cIn.imageCount
        g == cOut[1]
    IN  /\ g.cols * g.cols >= n /\ (g.cols - 1) * (g.cols - 1) < n
        /\ g.rows * g.cols >= n /\ (g.rows - 1) * g.cols < n
        /\ g.cellWidth * g.cols <= cIn.width /\ (g.cellWidth + 1) * g.cols > cIn.width
        /\ g.cellHeight * g.rows <= cIn.height /\ (g.cellHeight + 1) * g.rows > cIn.height
        /\ Len(g.layout) = n
        /\ \A i, j \in 1..Len(g.layout) : i # j => g.layout[i] # g.layout[j]
        /\ \A i \in 1..Len(g.layout) :
             /\ g.layout[i][1] >= 0 /\ g.layout[i][1] + g.cellWidth <= cIn.width
             /\ g.layout[i][2] >= 0 /\ g.layout[i][2] + g.cellHeight <= cIn.height

\* seven images on the smallest odd-sized output: a 3 x 3 grid with two
\* cells left empty
C39_Witness ==
  /\ cOut # <<>>
  /\ cIn.imageCount = 7
  /\ cIn.width = GRID_MIN_SIZE + 1
  /\ cOut[1].cols = 3
  /\ cOut[1].rows = 3
  /\ Len(cOut[1].layout) = 7

====
